---- MODULE Spec2Model ----
(***************************************************************************)
(* Model of shop/cascade/plugin_base.py (django-shop): the plugin base     *)
(* classes for links, catalog link forms and dialog form plugins.          *)
(*                                                                         *)
(* Python values are modelled as follows.  A dict is a function whose      *)
(* DOMAIN is the set of its keys.  The Python value None is the string     *)
(* "None" where the other values are strings.  An object's dynamic         *)
(* attributes are a dict from attribute name to value, so that hasattr is  *)
(* membership in the DOMAIN.                                               *)
(***************************************************************************)
EXTENDS Integers, Sequences, FiniteSets, TLC

VARIABLES
    \* ---- DialogFormPluginBase.register_plugin ----
    class_attrs,     \* class -> dict of the attributes its body defines
    plugin_pool,     \* the set of plugins held by cms.plugin_pool
    registered_via,  \* pairs <<cls, plugin>>: plugin reached the pool through cls.register_plugin
    reg_call,        \* the last register_plugin call and how it ended
    \* ---- ShopLinkPluginBase.get_link ----
    glossary,        \* obj.glossary, the plugin instance's settings dict
    obj_attrs,       \* the dynamic attributes of obj (here: _link_model, once set)
    db,              \* the model instances that exist in the database
    lookups,         \* how many times Model.objects.get ran for obj
    first_resolved,  \* what the first lookup for obj gave ("unset" before it)
    link_call,       \* the last get_link call and its result
    \* ---- DialogFormPluginBase.render ----
    req_attrs,       \* request -> the dynamic attributes of the request (here: _plugin_order)
    render_count,    \* request -> how many render calls were made on it
    orders,          \* request -> the plugin_order given to each form, in call order
    render_call,     \* the last render call: its inputs and the keyword arguments of the form
    \* ---- CatalogLinkForm.clean_product ----
    ProductModel,    \* the materialized product model: its app label and class name
    cleaned_data,    \* form.cleaned_data
    clean_call,      \* the last clean_product call: cleaned_data as it was before
    \* ---- DialogFormPluginBase.get_render_template ----
    APP_LABEL,       \* shop_settings.APP_LABEL
    templates,       \* the names of the templates the loaders can find
    tpl_call         \* the last get_render_template call and its result

reg_vars == <<class_attrs, plugin_pool, registered_via, reg_call>>
link_vars == <<glossary, obj_attrs, db, lookups, first_resolved, link_call>>
render_vars == <<req_attrs, render_count, orders, render_call>>
clean_vars == <<ProductModel, cleaned_data, clean_call>>
tpl_vars == <<APP_LABEL, templates, tpl_call>>
vars == <<reg_vars, link_vars, render_vars, clean_vars, tpl_vars>>

None == "None"

\* dict.get(key, default)
DictGet(d, key, default) == IF key \in DOMAIN d THEN d[key] ELSE default

EmptyDict == <<>>

(***************************************************************************)
(* Classes.  ShopPluginBase is the root; DialogFormPluginBase derives from *)
(* it; the other classes are plugins an application declares.              *)
(***************************************************************************)
DialogClasses ==
    {"DialogFormPluginBase", "CustomerFormPlugin", "GuestFormPlugin"}

OtherClasses == {"ShopPluginBase", "ShopButtonPluginBase"}

Classes == DialogClasses \cup OtherClasses

\* the class statement's base class ("" for the root of the hierarchy)
BaseOf(c) ==
    CASE c = "ShopPluginBase"          -> ""
      [] c = "ShopButtonPluginBase"    -> "ShopPluginBase"
      [] c = "DialogFormPluginBase"    -> "ShopPluginBase"
      [] c = "CustomerFormPlugin"      -> "DialogFormPluginBase"
      [] c = "GuestFormPlugin"         -> "CustomerFormPlugin"

\* the method resolution order of c: c, its base, the base's base, ...
RECURSIVE Mro(_)
Mro(c) == IF c = "" THEN <<>> ELSE <<c>> \o Mro(BaseOf(c))

\* issubclass(plugin, cls)
issubclass(plugin, cls) == \E i \in 1..Len(Mro(plugin)) : Mro(plugin)[i] = cls

FormPaths == {"shop.forms.checkout.CustomerForm"}

\* what a class body may say about form_class: nothing, None, or a dotted path
ClassBodies ==
    {EmptyDict} \cup {[a \in {"form_class"} |-> v] : v \in FormPaths \cup {None}}

\* getattr(cls, name, default): the first class of the MRO that defines name
RECURSIVE GetAttrAlong(_, _, _)
GetAttrAlong(mro, name, default) ==
    IF mro = <<>> THEN default
    ELSE IF name \in DOMAIN class_attrs[Head(mro)] THEN class_attrs[Head(mro)][name]
    ELSE GetAttrAlong(Tail(mro), name, default)

\* DialogFormPluginBase.get_form_class, a classmethod
get_form_class(cls) == GetAttrAlong(Mro(cls), "form_class", None)

\* a faulty variant: the form class is not looked at
register_outcome_unchecked(cls, plugin) ==
    IF ~issubclass(plugin, cls)
    THEN [raised |-> "ImproperlyConfigured", reason |-> "does not inherit", pool_calls |-> 0]
    ELSE [raised |-> None, reason |-> "", pool_calls |-> 1]

\* a faulty variant: the plugin is handed to the pool before its form class is
\* looked at
register_outcome_late_check(cls, plugin) ==
    IF ~issubclass(plugin, cls)
    THEN [raised |-> "ImproperlyConfigured", reason |-> "does not inherit", pool_calls |-> 0]
    ELSE IF get_form_class(plugin) = None
    THEN [raised |-> "ImproperlyConfigured", reason |-> "no form_class", pool_calls |-> 1]
    ELSE [raised |-> None, reason |-> "", pool_calls |-> 1]

\* how DialogFormPluginBase.register_plugin(plugin), called on cls, ends
register_outcome(cls, plugin) ==
    IF ~issubclass(plugin, cls)
    THEN [raised |-> "ImproperlyConfigured", reason |-> "does not inherit", pool_calls |-> 0]
    ELSE IF get_form_class(plugin) = None
    THEN [raised |-> "ImproperlyConfigured", reason |-> "no form_class", pool_calls |-> 0]
    ELSE [raised |-> None, reason |-> "", pool_calls |-> 1]

NoRegCall == [cls |-> "", plugin |-> "", raised |-> None, reason |-> "", pool_calls |-> 0,
              pool_before |-> {}]

\* cls.register_plugin(plugin), for cls DialogFormPluginBase or a class derived from it
register_plugin(cls, plugin) ==
    LET out == register_outcome(cls, plugin) IN
    /\ reg_call' = [cls |-> cls, plugin |-> plugin, raised |-> out.raised,
                    reason |-> out.reason, pool_calls |-> out.pool_calls,
                    pool_before |-> plugin_pool]
    /\ plugin_pool' = IF out.pool_calls = 1 THEN plugin_pool \cup {plugin} ELSE plugin_pool
    /\ registered_via' = IF out.pool_calls = 1 THEN registered_via \cup {<<cls, plugin>>}
                         ELSE registered_via
    /\ UNCHANGED class_attrs
    /\ UNCHANGED <<link_vars, render_vars, clean_vars, tpl_vars>>

NextRegister == \E cls \in DialogClasses, plugin \in Classes : register_plugin(cls, plugin)


(***************************************************************************)
(* ShopLinkPluginBase.get_link.  A model instance is the pair              *)
(* <<model label, pk>>; in a slot that holds a model instance, Python's    *)
(* None is the empty tuple.                                                *)
(***************************************************************************)
MaxLookups == 3

NoInstance == <<>>

LinkTypes == {"cmspage", "exturl"}
LinkModels == {"cms.Page"}
LinkPks == {"1", "2"}

AllInstances == LinkModels \X LinkPks

\* the dicts a glossary may hold under 'link': any of the keys may be missing
Links ==
    UNION {[S -> LinkTypes \cup LinkModels \cup LinkPks] : S \in SUBSET {"type", "model", "pk"}}

WellTypedLinks ==
    {l \in Links : /\ "type" \in DOMAIN l => l["type"] \in LinkTypes
                   /\ "model" \in DOMAIN l => l["model"] \in LinkModels
                   /\ "pk" \in DOMAIN l => l["pk"] \in LinkPks}

Glossaries == {EmptyDict} \cup {[k \in {"link"} |-> l] : l \in WellTypedLinks}

\* instance.get_absolute_url()
get_absolute_url(inst) == "/" \o inst[1] \o "/" \o inst[2] \o "/"

\* a faulty variant: the instance is built without asking the database
ObjectsGet_blind(database, model, pk) == <<model, pk>>

\* Model.objects.get(pk=pk) with its except clause: the instance, or None
\* when Model.DoesNotExist is raised
ObjectsGet(database, model, pk) ==
    IF <<model, pk>> \in database THEN <<model, pk>> ELSE NoInstance

\* a faulty variant: the stored instance is not reused
get_link_eval_nocache(gl, attrs, database) ==
    LET link == DictGet(gl, "link", EmptyDict) IN
    IF DictGet(link, "type", None) = "cmspage"
    THEN IF "model" \in DOMAIN link /\ "pk" \in DOMAIN link
         THEN LET found == ObjectsGet(database, link["model"], link["pk"]) IN
              [attrs |-> [a \in {"_link_model"} |-> found],
               looked_up |-> TRUE,
               result |-> IF found # NoInstance THEN get_absolute_url(found) ELSE None]
         ELSE [attrs |-> attrs, looked_up |-> FALSE, result |-> None]
    ELSE [attrs |-> attrs, looked_up |-> FALSE, result |-> DictGet(link, "type", None)]

\* ShopLinkPluginBase.get_link(obj): the attributes of obj afterwards, whether
\* the model was looked up, and the value returned
get_link_eval(gl, attrs, database) ==
    LET link == DictGet(gl, "link", EmptyDict) IN
    IF DictGet(link, "type", None) = "cmspage"
    THEN IF "model" \in DOMAIN link /\ "pk" \in DOMAIN link
         THEN LET miss == "_link_model" \notin DOMAIN attrs
                  attrs1 == IF miss
                            THEN [a \in {"_link_model"} |->
                                    ObjectsGet(database, link["model"], link["pk"])]
                            ELSE attrs
              IN [attrs |-> attrs1,
                  looked_up |-> miss,
                  result |-> IF attrs1["_link_model"] # NoInstance
                             THEN get_absolute_url(attrs1["_link_model"])
                             ELSE None]
         ELSE [attrs |-> attrs, looked_up |-> FALSE, result |-> None]
    ELSE [attrs |-> attrs, looked_up |-> FALSE, result |-> DictGet(link, "type", None)]

Unset == <<"unset">>

NoLinkCall == [made |-> FALSE, link |-> EmptyDict, had_attr |-> FALSE, attr_before |-> NoInstance,
               looked_up |-> FALSE, result |-> None, db |-> {}]

\* cls.get_link(obj)
get_link ==
    LET out == get_link_eval(glossary, obj_attrs, db) IN
    /\ lookups < MaxLookups
    /\ obj_attrs' = out.attrs
    /\ lookups' = IF out.looked_up THEN lookups + 1 ELSE lookups
    /\ first_resolved' = IF out.looked_up /\ first_resolved = Unset
                         THEN out.attrs["_link_model"] ELSE first_resolved
    /\ link_call' = [made |-> TRUE,
                     link |-> DictGet(glossary, "link", EmptyDict),
                     had_attr |-> "_link_model" \in DOMAIN obj_attrs,
                     attr_before |-> DictGet(obj_attrs, "_link_model", NoInstance),
                     looked_up |-> out.looked_up,
                     result |-> out.result,
                     db |-> db]
    /\ UNCHANGED <<glossary, db>>
    /\ UNCHANGED <<reg_vars, render_vars, clean_vars, tpl_vars>>

\* the editor saves the plugin with another link (or none) in its glossary
SetGlossary(g) ==
    /\ g # glossary
    /\ glossary' = g
    /\ UNCHANGED <<obj_attrs, db, lookups, first_resolved, link_call>>
    /\ UNCHANGED <<reg_vars, render_vars, clean_vars, tpl_vars>>

\* a page is published
DbSave(inst) ==
    /\ inst \notin db
    /\ db' = db \cup {inst}
    /\ UNCHANGED <<glossary, obj_attrs, lookups, first_resolved, link_call>>
    /\ UNCHANGED <<reg_vars, render_vars, clean_vars, tpl_vars>>

\* a page is deleted
DbDelete(inst) ==
    /\ inst \in db
    /\ db' = db \ {inst}
    /\ UNCHANGED <<glossary, obj_attrs, lookups, first_resolved, link_call>>
    /\ UNCHANGED <<reg_vars, render_vars, clean_vars, tpl_vars>>

\* the plugin instance is loaded anew: a fresh Python object, same glossary
LoadObject ==
    /\ obj_attrs # EmptyDict
    /\ obj_attrs' = EmptyDict
    /\ lookups' = 0
    /\ first_resolved' = Unset
    /\ link_call' = NoLinkCall
    /\ UNCHANGED <<glossary, db>>
    /\ UNCHANGED <<reg_vars, render_vars, clean_vars, tpl_vars>>

NextLink ==
    \/ get_link
    \/ \E g \in Glossaries : SetGlossary(g)
    \/ \E inst \in AllInstances : DbSave(inst)
    \/ \E inst \in AllInstances : DbDelete(inst)
    \/ LoadObject


(***************************************************************************)
(* DialogFormPluginBase.render.  The values found under 'initial' are      *)
(* tagged with their Python type, so that isinstance(value, dict) can be   *)
(* decided: [tag |-> "dict", items |-> the dict], or another tag with no   *)
(* items.                                                                  *)
(***************************************************************************)
MaxRenders == 3

Requests == {"request1", "request2"}

\* plugin classes: the base class keeps the default get_form_data, the
\* derived one overrides it
RenderPlugins == {"DialogFormPluginBase", "CustomerFormPlugin"}

InstanceIds == {11, 12}

PyDict(items) == [tag |-> "dict", items |-> items]
PyNone == [tag |-> "NoneType", items |-> EmptyDict]
PyList == [tag |-> "list", items |-> EmptyDict]

\* the value a form's initial data may already hold under each key
PresetValue(k) ==
    CASE k = "plugin_id" -> 99
      [] k = "plugin_order" -> 99
      [] k = "email" -> "guest@example.com"

InitialDicts == {[k \in S |-> PresetValue(k)] : S \in SUBSET {"plugin_id", "plugin_order", "email"}}

InitialValues == {PyDict(d) : d \in InitialDicts} \cup {PyNone, PyList}

FormInstances == {"customer"}

\* the dicts an overriding get_form_data may return
FormDatas ==
    {EmptyDict}
    \cup {[k \in {"initial"} |-> i] : i \in InitialValues}
    \cup {[k \in {"instance"} |-> o] : o \in FormInstances}
    \cup {[k \in {"initial", "instance"} |-> IF k = "initial" THEN i ELSE o] :
             i \in InitialValues, o \in FormInstances}

\* self.get_form_data(request): {} unless the plugin class overrides it
get_form_data(plugin, overridden) ==
    IF plugin = "DialogFormPluginBase" THEN EmptyDict ELSE overridden

\* a faulty variant: the counter starts one too high
next_plugin_order_off(attrs) == DictGet(attrs, "_plugin_order", 1) + 1

\* getattr(request, '_plugin_order', 0) + 1
next_plugin_order(attrs) == DictGet(attrs, "_plugin_order", 0) + 1

\* dict.update(plugin_id=..., plugin_order=...)
DictUpdate(d, plugin_id, plugin_order) ==
    [k \in DOMAIN d \cup {"plugin_id", "plugin_order"} |->
        IF k = "plugin_id" THEN plugin_id
        ELSE IF k = "plugin_order" THEN plugin_order
        ELSE d[k]]

\* a faulty variant: 'initial' is always started afresh
form_kwargs_fresh(form_data, instance_id, order) ==
    [k \in DOMAIN form_data \cup {"initial"} |->
        IF k = "initial" THEN PyDict(DictUpdate(EmptyDict, instance_id, order))
        ELSE form_data[k]]

\* the keyword arguments render passes to self.FormClass
form_kwargs(form_data, instance_id, order) ==
    LET given == IF "initial" \in DOMAIN form_data THEN form_data["initial"] ELSE PyNone
        initial == IF given.tag = "dict" THEN given.items ELSE EmptyDict
    IN [k \in DOMAIN form_data \cup {"initial"} |->
          IF k = "initial" THEN PyDict(DictUpdate(initial, instance_id, order))
          ELSE form_data[k]]

NoRenderCall == [made |-> FALSE, request |-> "", plugin |-> "", instance_id |-> 0,
                 form_data |-> EmptyDict, kwargs |-> EmptyDict]

\* plugin.render(context, instance, placeholder) with context['request'] = r
render(plugin, r, instance_id, overridden) ==
    LET form_data == get_form_data(plugin, overridden)
        order == next_plugin_order(req_attrs[r])
        kwargs == form_kwargs(form_data, instance_id, order)
    IN /\ render_count[r] < MaxRenders
       /\ req_attrs' = [req_attrs EXCEPT ![r] = [a \in {"_plugin_order"} |-> order]]
       /\ render_count' = [render_count EXCEPT ![r] = @ + 1]
       /\ orders' = [orders EXCEPT ![r] = Append(@, kwargs["initial"].items["plugin_order"])]
       /\ render_call' = [made |-> TRUE, request |-> r, plugin |-> plugin,
                          instance_id |-> instance_id, form_data |-> form_data,
                          kwargs |-> kwargs]
       /\ UNCHANGED <<reg_vars, link_vars, clean_vars, tpl_vars>>

NextRender ==
    \E plugin \in RenderPlugins, r \in Requests, instance_id \in InstanceIds,
       overridden \in FormDatas : render(plugin, r, instance_id, overridden)


(***************************************************************************)
(* CatalogLinkForm.clean_product.  Where a slot holds a number or None,    *)
(* None is the empty tuple and the number n is <<n>>; likewise for the     *)
(* selected product, a record with its pk.                                 *)
(***************************************************************************)
Nothing == <<>>
Some(x) == <<x>>

ProductModels == {[app_label |-> "myshop", name |-> "Product"],
                  [app_label |-> "myshop", name |-> "SmartCard"]}

ProductPks == {0, 1, 2}

FormLinkTypes == {"cmspage", "product", "exturl", "email"}

\* what the 'product' field cleans to: None, or a product
ProductChoices == {Nothing} \cup {Some([pk |-> n]) : n \in ProductPks}

\* link_data an earlier clean method may have left behind
EarlierLinkData == {[type |-> "cmspage", model |-> "cms.Page", pk |-> Some(1)],
                    [type |-> "exturl", url |-> "http://example.com/"]}

CleanedDatas ==
    {[k \in S \cup {"product"} |-> "?"] : S \in SUBSET {"link_type", "link_data"}}

\* cleaned_data as it may be when clean_product runs: 'product' is always
\* there, 'link_type' is missing if it did not validate
CleanedInputs ==
    UNION {{[k \in DOMAIN shape |->
                IF k = "product" THEN p ELSE IF k = "link_type" THEN t ELSE ld] :
              p \in ProductChoices, t \in FormLinkTypes, ld \in EarlierLinkData} :
           shape \in CleanedDatas}

\* Python's truth value of a number
Truthy(n) == n # 0

\* product and product.pk or None
ProductPkOrNone(product) ==
    IF product = Nothing THEN Nothing
    ELSE IF Truthy(product[1].pk) THEN Some(product[1].pk)
    ELSE Nothing

\* '{0}.{1}'.format(app_label, self.ProductModel.__name__)
ModelLabel(model) == model.app_label \o "." \o model.name

\* CatalogLinkForm.clean_product: cleaned_data afterwards
clean_product_eval(model, data) ==
    IF DictGet(data, "link_type", None) = "product"
    THEN [k \in DOMAIN data \cup {"link_data"} |->
            IF k = "link_data"
            THEN [type |-> "product",
                  model |-> ModelLabel(model),
                  pk |-> ProductPkOrNone(data["product"])]
            ELSE data[k]]
    ELSE data

NoCleanCall == [made |-> FALSE, before |-> EmptyDict]

\* form.clean_product()
clean_product ==
    /\ cleaned_data' = clean_product_eval(ProductModel, cleaned_data)
    /\ clean_call' = [made |-> TRUE, before |-> cleaned_data]
    /\ UNCHANGED ProductModel
    /\ UNCHANGED <<reg_vars, link_vars, render_vars, tpl_vars>>

NextClean == clean_product

(***************************************************************************)
(* DialogFormPluginBase.get_render_template.  APP_LABEL is the label of    *)
(* the application that implements the shop; 'shop' is the label of this   *)
(* package, and application labels are unique.                             *)
(***************************************************************************)
AppLabels == {"myshop", "webshop"}

LeafNames == {"customer.html", "payment-method.html"}

Contexts == {"context1", "context2"}
Placeholders == {"main", "sidebar"}

\* '{0}/checkout/{1}'.format(label, leaf)
TemplateName(label, leaf) == label \o "/checkout/" \o leaf

AllTemplates == {TemplateName(l, leaf) : l \in AppLabels \cup {"shop"}, leaf \in LeafNames}

\* a faulty variant: the two names are tried in the other order
template_names_swapped(label, leaf) ==
    <<TemplateName("shop", leaf), TemplateName(label, leaf)>>

\* the list template_names of get_render_template
template_names(label, leaf) ==
    <<TemplateName(label, leaf), TemplateName("shop", leaf)>>

\* django.template.loader.select_template: the first name that can be loaded
RECURSIVE select_template(_, _)
select_template(names, existing) ==
    IF names = <<>> THEN [raised |-> "TemplateDoesNotExist", template |-> ""]
    ELSE IF Head(names) \in existing THEN [raised |-> None, template |-> Head(names)]
    ELSE select_template(Tail(names), existing)

NoTplCall == [made |-> FALSE, leaf |-> "", context |-> "", instance_id |-> 0,
              placeholder |-> "", raised |-> None, template |-> ""]

\* plugin.get_render_template(context, instance, placeholder), for a plugin
\* whose template_leaf_name is leaf
get_render_template(leaf, context, instance_id, placeholder) ==
    LET out == select_template(template_names(APP_LABEL, leaf), templates) IN
    /\ tpl_call' = [made |-> TRUE, leaf |-> leaf, context |-> context,
                    instance_id |-> instance_id, placeholder |-> placeholder,
                    raised |-> out.raised, template |-> out.template]
    /\ UNCHANGED <<APP_LABEL, templates>>
    /\ UNCHANGED <<reg_vars, link_vars, render_vars, clean_vars>>

NextTemplate ==
    \E leaf \in LeafNames, context \in Contexts, instance_id \in InstanceIds,
       placeholder \in Placeholders :
        get_render_template(leaf, context, instance_id, placeholder)

(***************************************************************************)
(* Specifications.  Each one runs the operations of one class from every   *)
(* state that class can start in; the state of the other classes is at     *)
(* rest.                                                                   *)
(***************************************************************************)

\* DialogFormPluginBase.register_plugin on a set of declared plugin classes
InitRegister ==
    /\ class_attrs \in
         {f \in [Classes -> ClassBodies] : \A c \in OtherClasses : f[c] = EmptyDict}
    /\ plugin_pool = {}
    /\ registered_via = {}
    /\ reg_call = NoRegCall
    /\ glossary = EmptyDict
    /\ obj_attrs = EmptyDict
    /\ db = {}
    /\ lookups = 0
    /\ first_resolved = Unset
    /\ link_call = NoLinkCall
    /\ req_attrs = [r \in Requests |-> EmptyDict]
    /\ render_count = [r \in Requests |-> 0]
    /\ orders = [r \in Requests |-> <<>>]
    /\ render_call = NoRenderCall
    /\ ProductModel = [app_label |-> "myshop", name |-> "Product"]
    /\ cleaned_data = [k \in {"product"} |-> Nothing]
    /\ clean_call = NoCleanCall
    /\ APP_LABEL = "myshop"
    /\ templates = {}
    /\ tpl_call = NoTplCall

SpecRegister == InitRegister /\ [][NextRegister]_vars

\* ShopLinkPluginBase.get_link on one plugin instance, while its glossary and the database change
InitLink ==
    /\ class_attrs = [c \in Classes |-> EmptyDict]
    /\ plugin_pool = {}
    /\ registered_via = {}
    /\ reg_call = NoRegCall
    /\ glossary \in Glossaries
    /\ obj_attrs = EmptyDict
    /\ db \in SUBSET AllInstances
    /\ lookups = 0
    /\ first_resolved = Unset
    /\ link_call = NoLinkCall
    /\ req_attrs = [r \in Requests |-> EmptyDict]
    /\ render_count = [r \in Requests |-> 0]
    /\ orders = [r \in Requests |-> <<>>]
    /\ render_call = NoRenderCall
    /\ ProductModel = [app_label |-> "myshop", name |-> "Product"]
    /\ cleaned_data = [k \in {"product"} |-> Nothing]
    /\ clean_call = NoCleanCall
    /\ APP_LABEL = "myshop"
    /\ templates = {}
    /\ tpl_call = NoTplCall

SpecLink == InitLink /\ [][NextLink]_vars

\* DialogFormPluginBase.render on two requests
InitRender ==
    /\ class_attrs = [c \in Classes |-> EmptyDict]
    /\ plugin_pool = {}
    /\ registered_via = {}
    /\ reg_call = NoRegCall
    /\ glossary = EmptyDict
    /\ obj_attrs = EmptyDict
    /\ db = {}
    /\ lookups = 0
    /\ first_resolved = Unset
    /\ link_call = NoLinkCall
    /\ req_attrs = [r \in Requests |-> EmptyDict]
    /\ render_count = [r \in Requests |-> 0]
    /\ orders = [r \in Requests |-> <<>>]
    /\ render_call = NoRenderCall
    /\ ProductModel = [app_label |-> "myshop", name |-> "Product"]
    /\ cleaned_data = [k \in {"product"} |-> Nothing]
    /\ clean_call = NoCleanCall
    /\ APP_LABEL = "myshop"
    /\ templates = {}
    /\ tpl_call = NoTplCall

SpecRender == InitRender /\ [][NextRender]_vars

\* CatalogLinkForm.clean_product on a form's cleaned data
InitClean ==
    /\ class_attrs = [c \in Classes |-> EmptyDict]
    /\ plugin_pool = {}
    /\ registered_via = {}
    /\ reg_call = NoRegCall
    /\ glossary = EmptyDict
    /\ obj_attrs = EmptyDict
    /\ db = {}
    /\ lookups = 0
    /\ first_resolved = Unset
    /\ link_call = NoLinkCall
    /\ req_attrs = [r \in Requests |-> EmptyDict]
    /\ render_count = [r \in Requests |-> 0]
    /\ orders = [r \in Requests |-> <<>>]
    /\ render_call = NoRenderCall
    /\ ProductModel \in ProductModels
    /\ cleaned_data \in CleanedInputs
    /\ clean_call = NoCleanCall
    /\ APP_LABEL = "myshop"
    /\ templates = {}
    /\ tpl_call = NoTplCall

SpecClean == InitClean /\ [][NextClean]_vars

\* DialogFormPluginBase.get_render_template over the templates installed
InitTemplate ==
    /\ class_attrs = [c \in Classes |-> EmptyDict]
    /\ plugin_pool = {}
    /\ registered_via = {}
    /\ reg_call = NoRegCall
    /\ glossary = EmptyDict
    /\ obj_attrs = EmptyDict
    /\ db = {}
    /\ lookups = 0
    /\ first_resolved = Unset
    /\ link_call = NoLinkCall
    /\ req_attrs = [r \in Requests |-> EmptyDict]
    /\ render_count = [r \in Requests |-> 0]
    /\ orders = [r \in Requests |-> <<>>]
    /\ render_call = NoRenderCall
    /\ ProductModel = [app_label |-> "myshop", name |-> "Product"]
    /\ cleaned_data = [k \in {"product"} |-> Nothing]
    /\ clean_call = NoCleanCall
    /\ APP_LABEL \in AppLabels
    /\ templates \in SUBSET AllTemplates
    /\ tpl_call = NoTplCall

SpecTemplate == InitTemplate /\ [][NextTemplate]_vars

(***************************************************************************)
(* Properties of DialogFormPluginBase.register_plugin                      *)
(***************************************************************************)

\* C1: whatever register_plugin calls were made, each plugin that reached the
\* pool through cls.register_plugin is a subclass of cls and has a form class
\* that is not None; no dialog plugin without a form class is in the pool.
C1_PoolHoldsOnlyPluginsWithForm ==
    /\ \A pair \in registered_via :
          /\ issubclass(pair[2], pair[1])
          /\ get_form_class(pair[2]) # None
    /\ \A plugin \in plugin_pool : get_form_class(plugin) # None
    /\ plugin_pool = {pair[2] : pair \in registered_via}

\* a failed call has happened after successful ones, and one plugin in the
\* pool has its form class only by inheritance
C1_Witness ==
    /\ reg_call.raised = "ImproperlyConfigured"
    /\ reg_call.reason = "no form_class"
    /\ \E plugin \in plugin_pool : "form_class" \notin DOMAIN class_attrs[plugin]
    /\ Cardinality(registered_via) >= 2

\* C2: a register_plugin call ends in exactly one of three ways: plugin is no
\* subclass of the receiving class: ImproperlyConfigured, whatever its form
\* class; else its form class is None: ImproperlyConfigured; else one call of
\* plugin_pool.register_plugin(plugin).  The pool is unchanged in both errors.
C2_ThreeOutcomes ==
    reg_call.cls # "" =>
        LET cls == reg_call.cls
            plugin == reg_call.plugin
        IN /\ ~issubclass(plugin, cls) =>
                 /\ reg_call.raised = "ImproperlyConfigured"
                 /\ reg_call.reason = "does not inherit"
                 /\ reg_call.pool_calls = 0
                 /\ plugin_pool = reg_call.pool_before
           /\ (issubclass(plugin, cls) /\ get_form_class(plugin) = None) =>
                 /\ reg_call.raised = "ImproperlyConfigured"
                 /\ reg_call.reason = "no form_class"
                 /\ reg_call.pool_calls = 0
                 /\ plugin_pool = reg_call.pool_before
           /\ (issubclass(plugin, cls) /\ get_form_class(plugin) # None) =>
                 /\ reg_call.raised = None
                 /\ reg_call.pool_calls = 1
                 /\ plugin_pool = reg_call.pool_before \cup {plugin}

\* a plugin that has a form class was refused because it does not inherit from
\* the receiving class, and the pool, not empty, stayed as it was
C2_Witness ==
    /\ reg_call.cls # ""
    /\ ~issubclass(reg_call.plugin, reg_call.cls)
    /\ reg_call.plugin \in DialogClasses
    /\ get_form_class(reg_call.plugin) # None
    /\ reg_call.raised = "ImproperlyConfigured"
    /\ plugin_pool # {}

(***************************************************************************)
(* Properties of ShopLinkPluginBase.get_link                               *)
(***************************************************************************)
LinkType(link) == DictGet(link, "type", None)

IsPageLink(link) ==
    /\ LinkType(link) = "cmspage"
    /\ "model" \in DOMAIN link
    /\ "pk" \in DOMAIN link

\* the URL of an instance, None for no instance
UrlOrNone(inst) == IF inst = NoInstance THEN None ELSE get_absolute_url(inst)

\* the instance the link refers to, as the database had it at the call
Referenced(call) ==
    IF <<call.link["model"], call.link["pk"]>> \in call.db
    THEN <<call.link["model"], call.link["pk"]>>
    ELSE NoInstance

\* C3, as the claim states it: the result of get_link is the link type when the
\* type is not 'cmspage'; for a 'cmspage' link with 'model' and 'pk' it is the
\* URL of the referenced instance if that exists and None if not; for a
\* 'cmspage' link without 'model' or 'pk' it is None, with no lookup.
C3_AsClaimed ==
    link_call.made =>
        /\ LinkType(link_call.link) # "cmspage" =>
              /\ link_call.result = LinkType(link_call.link)
              /\ ~link_call.looked_up
        /\ IsPageLink(link_call.link) =>
              link_call.result = UrlOrNone(Referenced(link_call))
        /\ (LinkType(link_call.link) = "cmspage" /\ ~IsPageLink(link_call.link)) =>
              /\ link_call.result = None
              /\ ~link_call.looked_up

\* C3, amended: as claimed, except that for a 'cmspage' link with 'model' and
\* 'pk' the referenced instance is looked up only when obj has no _link_model
\* yet; when obj has one, the result is the URL of that stored instance (None
\* when None is stored) and no lookup is made.
C3_ResultOfGetLink ==
    link_call.made =>
        /\ LinkType(link_call.link) # "cmspage" =>
              /\ link_call.result = LinkType(link_call.link)
              /\ ~link_call.looked_up
        /\ (IsPageLink(link_call.link) /\ ~link_call.had_attr) =>
              /\ link_call.looked_up
              /\ link_call.result = UrlOrNone(Referenced(link_call))
              /\ obj_attrs["_link_model"] = Referenced(link_call)
        /\ (IsPageLink(link_call.link) /\ link_call.had_attr) =>
              /\ ~link_call.looked_up
              /\ link_call.result = UrlOrNone(link_call.attr_before)
        /\ (LinkType(link_call.link) = "cmspage" /\ ~IsPageLink(link_call.link)) =>
              /\ link_call.result = None
              /\ ~link_call.looked_up

\* a call on an object that already holds an instance answered with the URL of
\* that instance, although the link now names another page
C3_Witness ==
    /\ link_call.made
    /\ IsPageLink(link_call.link)
    /\ link_call.had_attr
    /\ link_call.attr_before # NoInstance
    /\ link_call.attr_before # <<link_call.link["model"], link_call.link["pk"]>>
    /\ link_call.result = get_absolute_url(link_call.attr_before)

\* C8: over the get_link calls on one object with a 'cmspage' link with
\* 'model' and 'pk', the model is looked up at most once: the first call stores
\* the instance, or None, in obj._link_model, and every later call answers from
\* what is stored, with no lookup, also after a failed lookup and also when the
\* link was changed in between.
C8_LookupAtMostOnce ==
    /\ lookups <= 1
    /\ (lookups = 1) <=> ("_link_model" \in DOMAIN obj_attrs)
    /\ "_link_model" \in DOMAIN obj_attrs =>
          /\ first_resolved # Unset
          /\ obj_attrs["_link_model"] = first_resolved
    /\ (link_call.made /\ IsPageLink(link_call.link) /\ link_call.had_attr) =>
          /\ ~link_call.looked_up
          /\ link_call.result = UrlOrNone(first_resolved)

\* after a failed lookup the link was changed to a page that exists, and the
\* next call still answered None without a lookup
C8_Witness ==
    /\ link_call.made
    /\ IsPageLink(link_call.link)
    /\ link_call.had_attr
    /\ first_resolved = NoInstance
    /\ <<link_call.link["model"], link_call.link["pk"]>> \in link_call.db
    /\ link_call.result = None
    /\ lookups = 1

(***************************************************************************)
(* Properties of DialogFormPluginBase.render                               *)
(***************************************************************************)
OrderKeys == {"plugin_id", "plugin_order"}

\* C4: the form is always constructed with a dict 'initial' that holds
\* plugin_id = instance.id and plugin_order = the request's counter; an
\* 'initial' that is missing or no dict is replaced by an empty dict first; a
\* dict keeps its other keys; 'instance' is passed on unchanged; with the
\* default get_form_data the form receives only initial = {plugin_id,
\* plugin_order}.
C4_FormInitial ==
    render_call.made =>
        LET fd == render_call.form_data
            kw == render_call.kwargs
            items == kw["initial"].items
            given == IF "initial" \in DOMAIN fd /\ fd["initial"].tag = "dict"
                     THEN fd["initial"].items ELSE EmptyDict
        IN /\ kw["initial"].tag = "dict"
           /\ items["plugin_id"] = render_call.instance_id
           /\ items["plugin_order"] = req_attrs[render_call.request]["_plugin_order"]
           /\ DOMAIN items = DOMAIN given \cup OrderKeys
           /\ \A k \in DOMAIN given \ OrderKeys : items[k] = given[k]
           /\ DOMAIN kw = DOMAIN fd \cup {"initial"}
           /\ "instance" \in DOMAIN fd => kw["instance"] = fd["instance"]
           /\ render_call.plugin = "DialogFormPluginBase" =>
                 /\ DOMAIN kw = {"initial"}
                 /\ DOMAIN items = OrderKeys

\* get_form_data gave an instance and an initial dict that already had an
\* email, a plugin_id and a plugin_order; the form got the email, and the two
\* keys overwritten
C4_Witness ==
    /\ render_call.made
    /\ DOMAIN render_call.form_data = {"initial", "instance"}
    /\ render_call.form_data["initial"].tag = "dict"
    /\ DOMAIN render_call.form_data["initial"].items = {"plugin_id", "plugin_order", "email"}
    /\ render_call.kwargs["initial"].items["email"] = "guest@example.com"
    /\ render_call.kwargs["initial"].items["plugin_id"] = render_call.instance_id
    /\ render_call.kwargs["initial"].items["plugin_order"] = 2

\* C7: on each request the forms get plugin_order 1, 2, 3, ... in call order,
\* and the request's _plugin_order is the number of render calls made on it so
\* far; the counters of different requests are independent.
C7_PluginOrderCounts ==
    \A r \in Requests :
        /\ orders[r] = [i \in 1..render_count[r] |-> i]
        /\ DictGet(req_attrs[r], "_plugin_order", 0) = render_count[r]
        /\ ("_plugin_order" \in DOMAIN req_attrs[r]) <=> (render_count[r] > 0)

\* three renders on one request, by both plugin classes, and one on the other
C7_Witness ==
    /\ orders["request1"] = <<1, 2, 3>>
    /\ orders["request2"] = <<1>>
    /\ render_call.request = "request2"
    /\ render_call.plugin = "CustomerFormPlugin"

(***************************************************************************)
(* Properties of CatalogLinkForm.clean_product                             *)
(***************************************************************************)

\* C5: when link_type is 'product', link_data becomes exactly type =
\* 'product', model = '<app_label>.<class name>', pk = the pk of the selected
\* product, or None when no product was selected; otherwise cleaned_data is
\* left as it was.
C5_AsClaimed ==
    clean_call.made =>
        LET before == clean_call.before IN
        IF DictGet(before, "link_type", None) = "product"
        THEN /\ DOMAIN cleaned_data = DOMAIN before \cup {"link_data"}
             /\ \A k \in DOMAIN before \ {"link_data"} : cleaned_data[k] = before[k]
             /\ cleaned_data["link_data"] =
                   [type |-> "product",
                    model |-> ModelLabel(ProductModel),
                    pk |-> IF before["product"] = Nothing THEN Nothing
                           ELSE Some(before["product"][1].pk)]
        ELSE cleaned_data = before

(***************************************************************************)
(* Properties of DialogFormPluginBase.get_render_template                  *)
(***************************************************************************)

\* C6: the template is '<APP_LABEL>/checkout/<leaf>' whenever that exists, and
\* 'shop/checkout/<leaf>' only when the application's template is absent,
\* whatever context, instance and placeholder are.
C6_AppTemplateFirst ==
    tpl_call.made =>
        LET app == TemplateName(APP_LABEL, tpl_call.leaf)
            shop == TemplateName("shop", tpl_call.leaf)
        IN /\ app \in templates =>
                 (tpl_call.raised = None /\ tpl_call.template = app)
           /\ (tpl_call.raised = None /\ tpl_call.template = shop) => app \notin templates
           /\ (app \notin templates /\ shop \in templates) =>
                 (tpl_call.raised = None /\ tpl_call.template = shop)
           /\ (app \notin templates /\ shop \notin templates) =>
                 tpl_call.raised = "TemplateDoesNotExist"

\* both templates exist and the application's one was selected
C6_Witness ==
    /\ tpl_call.made
    /\ TemplateName(APP_LABEL, tpl_call.leaf) \in templates
    /\ TemplateName("shop", tpl_call.leaf) \in templates
    /\ tpl_call.template = TemplateName(APP_LABEL, tpl_call.leaf)

====
